---- MODULE Spec2Model ----
(***************************************************************************)
(* Binding/session layer of the cuvslam wrapper (src/src/lib.rs) and the   *)
(* RealSense tracking-loop driver (src/src/bin/realsense.rs).              *)
(*                                                                         *)
(* The native engine is a black box: every native function returns a       *)
(* status code the model draws from 0..MaxCode.  The model keeps a         *)
(* call-counting mock of the native boundary (hstate, destroyed, nCreate,  *)
(* nTrack, lastNative) next to the wrapper's own objects.                  *)
(*                                                                         *)
(*   Spec      the driver, main() of realsense.rs                          *)
(*   FairSpec  the driver with the fairness of a running sequential        *)
(*             program on its return path                                  *)
(*   LibSpec   a client exercising the public API of lib.rs in every       *)
(*             order Rust's ownership rules allow                          *)
(*   PureSpec  the pure conversions of lib.rs applied to inputs drawn      *)
(*             from bounded sets                                           *)
(***************************************************************************)
EXTENDS Integers, Sequences, FiniteSets, TLC

VARIABLES
    pc,          \* driver: position in main()
    exit,        \* driver: how main() ended ("running" while it has not)
    frames,      \* driver: infrared frames held this iteration, -1 = none held
    images,      \* driver: the CUVSLAM_Image descriptors of this iteration
    lastWait,    \* driver: outcome of the latest active_pipeline.wait
    lastTrack,   \* driver: Status of the latest tracker.track, "None" before
    prevTrack,   \* driver: Status of the track call before the latest
    rig,         \* the CameraRig value the caller owns, None once moved
    rigAlive,    \* storage of the rig (camera array, parameter buffers) is alive
    tracker,     \* the Tracker value (handle, _rig), None when there is none
    result,      \* what the latest wrapper call returned
    conv,        \* a Status::from conversion: its input code and its output
    pose,        \* a pose estimate on its way through the From conversions
    hstate,      \* native: lifecycle state of each handle
    destroyed,   \* native: number of DestroyTracker calls per handle
    nCreate,     \* native: number of CreateTracker calls
    nTrack,      \* native: number of Track calls
    lastNative   \* native: the latest native call and what it returned

vars == <<pc, exit, frames, images, lastWait, lastTrack, prevTrack, rig,
          rigAlive, tracker, result, conv, pose, hstate, destroyed,
          nCreate, nTrack, lastNative>>

driverVars == <<pc, exit, frames, images, lastWait, lastTrack, prevTrack>>

(***************************************************************************)
(* Bounds of the model.                                                    *)
(***************************************************************************)
MaxCode    == 9   \* native status codes are drawn from 0..MaxCode
MaxHandles == 2   \* CreateTracker calls of one run
MaxTrack   == 2   \* native Track calls of one run
MaxCameras == 2   \* cameras of a rig a library client builds
MaxImages  == 2   \* images a library client passes to track
MaxFrames  == 3   \* infrared frames one frame wait delivers
MaxRawCode == 127 \* integers Status::from is applied to, 0..MaxRawCode

(***************************************************************************)
(* Native status codes, as named by the bindings lib.rs matches on.  The   *)
(* names are the bindings'; the numbers are those of the engine's C header *)
(* the bindings are generated from (the wrapper itself tests `status == 0` *)
(* for success).                                                           *)
(***************************************************************************)
CUVSLAM_SUCCESS                         == 0
CUVSLAM_TRACKING_LOST                   == 1
CUVSLAM_INVALID_ARG                     == 2
CUVSLAM_CAN_NOT_LOCALIZE                == 3
CUVSLAM_GENERIC_ERROR                   == 4
CUVSLAM_UNSUPPORTED_NUMBER_OF_CAMERAS   == 5
CUVSLAM_SLAM_IS_NOT_INITIALIZED         == 6
CUVSLAM_NOT_IMPLEMENTED                 == 7
CUVSLAM_READING_SLAM_INTERNALS_DISABLED == 8

Codes == 0..MaxCode

\* enum Status
Status == {"Success", "TrackingLost", "InvalidArg", "CannotLocalize",
           "GenericError", "UnsupportedNumberOfCameras",
           "SlamNotInitialized", "NotImplemented",
           "ReadingSlamInternalsDisabled"}

None == "None"   \* the `err` of an Ok result, the Status before any track

\* Option<T>: the empty sequence, or the sequence of the one value
None1 == <<>>
Some(x) == <<x>>
Get(o) == o[1]

\* A conversion with the fallback arm taking the place of a known code.
StatusFrom_Shifted(status) ==
    CASE status = CUVSLAM_SUCCESS -> "Success"
      [] status = CUVSLAM_TRACKING_LOST -> "TrackingLost"
      [] status = CUVSLAM_INVALID_ARG -> "InvalidArg"
      [] status = CUVSLAM_CAN_NOT_LOCALIZE -> "CannotLocalize"
      [] status = CUVSLAM_GENERIC_ERROR -> "GenericError"
      [] status = CUVSLAM_UNSUPPORTED_NUMBER_OF_CAMERAS -> "UnsupportedNumberOfCameras"
      [] status = CUVSLAM_SLAM_IS_NOT_INITIALIZED -> "SlamNotInitialized"
      [] status = CUVSLAM_NOT_IMPLEMENTED -> "NotImplemented"
      [] OTHER -> "ReadingSlamInternalsDisabled"

\* impl From<CUVSLAM_Status> for Status: a match whose arms are tried in order
StatusFrom(status) ==
    CASE status = CUVSLAM_SUCCESS -> "Success"
      [] status = CUVSLAM_TRACKING_LOST -> "TrackingLost"
      [] status = CUVSLAM_INVALID_ARG -> "InvalidArg"
      [] status = CUVSLAM_CAN_NOT_LOCALIZE -> "CannotLocalize"
      [] status = CUVSLAM_GENERIC_ERROR -> "GenericError"
      [] status = CUVSLAM_UNSUPPORTED_NUMBER_OF_CAMERAS -> "UnsupportedNumberOfCameras"
      [] status = CUVSLAM_SLAM_IS_NOT_INITIALIZED -> "SlamNotInitialized"
      [] status = CUVSLAM_NOT_IMPLEMENTED -> "NotImplemented"
      [] status = CUVSLAM_READING_SLAM_INTERNALS_DISABLED -> "ReadingSlamInternalsDisabled"
      [] OTHER -> "GenericError"

\* A success test that also lets the recoverable code through.
IsSuccess_Lenient(status) == status <= 1

\* `if status == 0` of new, track, get_odometry_pose and save_to_slam_db
IsSuccess(status) == status = 0

\* A wrapper that reports every failure as the generic error.
WrapperResult_LosesStatus(op, status) ==
    IF IsSuccess(status)
    THEN [op |-> op, ok |-> TRUE, err |-> None]
    ELSE [op |-> op, ok |-> FALSE, err |-> "GenericError"]

\* Result<_, Status> of a wrapper call: Ok(..) or Err(status.into())
WrapperResult(op, status) ==
    IF IsSuccess(status)
    THEN [op |-> op, ok |-> TRUE, err |-> None]
    ELSE [op |-> op, ok |-> FALSE, err |-> StatusFrom(status)]

NoConv == [code |-> 0, status |-> None]

NoResult == [op |-> "none", ok |-> FALSE, err |-> None]

(***************************************************************************)
(* Cameras and rigs.                                                       *)
(***************************************************************************)
\* calibration values a caller passes in (the f32 fields of the
\* *Parameters structs)
SampleParams ==
    [cx |-> 3, cy |-> 2, fx |-> 5, fy |-> 6, k1 |-> 1, k2 |-> 0, k3 |-> 0,
     k4 |-> 0, p1 |-> 0, p2 |-> 0]

\* struct Camera: the owned vector and name, and the native CUVSLAM_Camera
\* whose pointers refer to them
Camera(parameters, distortion_model, num_parameters) ==
    [parameters |-> parameters,
     distortion_model |-> distortion_model,
     inner |-> [distortion_model |-> distortion_model,
                parameters |-> parameters,
                num_parameters |-> num_parameters]]

\* Camera::new_brown5k
New_brown5k ==
    LET params == SampleParams IN
    Camera(<<params.cx, params.cy, params.fx, params.fy,
             params.k1, params.k2, params.k3, params.p1, params.p2>>,
           "brown5k", 9)

\* A pinhole constructor written by copying the brown5k one.
New_pinhole_CopyPaste ==
    LET params == SampleParams IN
    Camera(<<params.cx, params.cy, params.fx, params.fy>>, "pinhole", 9)

\* Camera::new_pinhole
New_pinhole ==
    LET params == SampleParams IN
    Camera(<<params.cx, params.cy, params.fx, params.fy>>, "pinhole", 4)

\* Camera::new_fisheye4
New_fisheye4 ==
    LET params == SampleParams IN
    Camera(<<params.cx, params.cy, params.fx, params.fy,
             params.k1, params.k2, params.k3, params.k4>>,
           "fisheye4", 8)

Cameras == {New_brown5k, New_pinhole, New_fisheye4}

\* CameraRig::new: infallible, whatever the length of `cameras`
CameraRigNew(cameras) ==
    [_inner_cameras |-> [i \in 1..Len(cameras) |-> cameras[i].inner],
     _cameras |-> cameras,
     num_cameras |-> Len(cameras)]

\* create_stereo_camera_rig of the driver
create_stereo_camera_rig == CameraRigNew(<<New_brown5k, New_brown5k>>)

CameraSeqs == UNION {[1..n -> Cameras] : n \in 0..MaxCameras}

(***************************************************************************)
(* Pose estimates.  A CUVSLAM_Pose is r: [f32; 9] and t: [f32; 3].         *)
(***************************************************************************)
Identity3 == <<1, 0, 0, 0, 1, 0, 0, 0, 1>>

\* the rotations, translations, timestamps and covariances the conversions
\* are applied to
Rotations == {Identity3, <<0, 0, 0, 0, 0, 0, 0, 0, 0>>, <<0, -1, 0, 1, 0, 0, 0, 0, 1>>}
Translations == {<<0, 0, 0>>, <<1, -2, 3>>}
Timestamps == {0, -1, 2^30 + 7}
Covariances == {[i \in 1..36 |-> 0], [i \in 1..36 |-> i]}

PoseEstimates ==
    {[pose |-> [r |-> r, t |-> t], timestamp_ns |-> ts, covariance |-> c] :
        r \in Rotations, t \in Translations, ts \in Timestamps, c \in Covariances}

NoPose == [start |-> "none", shape |-> "none",
           orig |-> [pose |-> [r |-> <<>>, t |-> <<>>], timestamp_ns |-> 0,
                     covariance |-> <<>>],
           cur |-> [pose |-> [r |-> <<>>, t |-> <<>>], timestamp_ns |-> 0,
                    covariance |-> <<>>],
           steps |-> 0]

\* impl From<PoseEstimate> for CUVSLAM_PoseEstimate
PoseEstimateIntoNative(est) ==
    [pose |-> est.pose,
     timestamp_ns |-> est.timestamp_ns,
     covariance |-> est.covariance]

\* A conversion that reads the rotation in the other major order.
PoseEstimateFromNative_Transposes(est) ==
    [pose |-> [r |-> [i \in 1..9 |-> est.pose.r[3 * ((i - 1) % 3) + ((i - 1) \div 3) + 1]],
               t |-> est.pose.t],
     timestamp_ns |-> est.timestamp_ns,
     covariance |-> est.covariance]

\* impl From<CUVSLAM_PoseEstimate> for PoseEstimate
PoseEstimateFromNative(est) ==
    [pose |-> est.pose,
     timestamp_ns |-> est.timestamp_ns,
     covariance |-> est.covariance]

(***************************************************************************)
(* The native boundary.                                                    *)
(***************************************************************************)
Handles == 1..MaxHandles

\* the state of the session behind a handle; the null handle has none
HState(h) == IF h \in DOMAIN hstate THEN hstate[h] ELSE "Null"

NoCall == [fn |-> "none", handle |-> 0, hs |-> "Null", ret |-> 0,
           num_cameras |-> 0, nimages |-> 0, predicted |-> FALSE]

NativeCall(fn, h, ret, ncams, nimg, pred) ==
    [fn |-> fn, handle |-> h, hs |-> HState(h), ret |-> ret,
     num_cameras |-> ncams, nimages |-> nimg, predicted |-> pred]

(***************************************************************************)
(* The wrapper's operations on a session.                                  *)
(***************************************************************************)

\* A constructor that wraps the handle without looking at the status.
TrackerNew_NoCheck(r, status) ==
    LET h == IF status = CUVSLAM_SUCCESS THEN nCreate + 1 ELSE 0 IN
    /\ nCreate' = nCreate + 1
    /\ hstate' = IF h \in Handles THEN [hstate EXCEPT ![h] = "Active"] ELSE hstate
    /\ lastNative' = NativeCall("CreateTracker", h, status, r.num_cameras, 0, FALSE)
    /\ result' = [op |-> "new", ok |-> TRUE, err |-> None]
    /\ tracker' = Some([handle |-> h, _rig |-> r])
    /\ rigAlive' = TRUE
    /\ rig' = None1
    /\ UNCHANGED <<destroyed, nTrack>>

\* A constructor that keeps the handle only: the rig is dropped on return.
TrackerNew_DropsRig(r, status) ==
    LET h == IF status = CUVSLAM_SUCCESS THEN nCreate + 1 ELSE 0 IN
    /\ nCreate' = nCreate + 1
    /\ hstate' = IF h \in Handles THEN [hstate EXCEPT ![h] = "Active"] ELSE hstate
    /\ lastNative' = NativeCall("CreateTracker", h, status, r.num_cameras, 0, FALSE)
    /\ result' = WrapperResult("new", status)
    /\ tracker' = IF IsSuccess(status) THEN Some([handle |-> h, _rig |-> r]) ELSE None1
    /\ rigAlive' = FALSE
    /\ rig' = None1
    /\ UNCHANGED <<destroyed, nTrack>>

\* Tracker::new(rig, config) with the native CreateTracker returning
\* `status`.  The engine fills the handle in only when it succeeds; `rig` is
\* moved in and, on the error path, dropped when new returns.
TrackerNew(r, status) ==
    LET h == IF status = CUVSLAM_SUCCESS THEN nCreate + 1 ELSE 0 IN
    /\ nCreate' = nCreate + 1
    /\ hstate' = IF h \in Handles THEN [hstate EXCEPT ![h] = "Active"] ELSE hstate
    /\ lastNative' = NativeCall("CreateTracker", h, status, r.num_cameras, 0, FALSE)
    /\ result' = WrapperResult("new", status)
    /\ tracker' = IF IsSuccess(status) THEN Some([handle |-> h, _rig |-> r]) ELSE None1
    /\ rigAlive' = IsSuccess(status)
    /\ rig' = None1
    /\ UNCHANGED <<destroyed, nTrack>>

\* A track that tears the session down when the engine reports an error.
TrackerTrack_DestroysOnError(n, predicted, status) ==
    /\ tracker # None1
    /\ nTrack' = nTrack + 1
    /\ lastNative' = NativeCall("Track", Get(tracker).handle, status,
                                Get(tracker)._rig.num_cameras, n, predicted)
    /\ result' = WrapperResult("track", status)
    /\ hstate' = IF ~IsSuccess(status) /\ Get(tracker).handle \in Handles
                 THEN [hstate EXCEPT ![Get(tracker).handle] = "Destroyed"]
                 ELSE hstate
    /\ destroyed' = IF ~IsSuccess(status) /\ Get(tracker).handle \in Handles
                    THEN [destroyed EXCEPT ![Get(tracker).handle] = @ + 1]
                    ELSE destroyed
    /\ UNCHANGED <<tracker, rig, rigAlive, nCreate>>

\* Tracker::track(&self, images, predicted_pose) with the native Track
\* returning `status`; n = images.len()
TrackerTrack(n, predicted, status) ==
    /\ tracker # None1
    /\ nTrack' = nTrack + 1
    /\ lastNative' = NativeCall("Track", Get(tracker).handle, status,
                                Get(tracker)._rig.num_cameras, n, predicted)
    /\ result' = WrapperResult("track", status)
    /\ UNCHANGED <<tracker, rig, rigAlive, hstate, destroyed, nCreate>>

\* Tracker::get_odometry_pose(&self)
TrackerGetOdometryPose(status) ==
    /\ tracker # None1
    /\ lastNative' = NativeCall("GetOdometryPose", Get(tracker).handle, status,
                                Get(tracker)._rig.num_cameras, 0, FALSE)
    /\ result' = WrapperResult("get_odometry_pose", status)
    /\ UNCHANGED <<tracker, rig, rigAlive, hstate, destroyed, nCreate, nTrack>>

\* the byte CString::new refuses inside its argument and appends after it
NUL == 0

\* folder: &str arguments, as their bytes: "/a" and "/\0a"
Paths == {<<47, 97>>, <<47, NUL, 97>>}

\* CString::new(folder): Err(NulError) when a byte of folder is 0, else
\* Ok of the bytes followed by the terminator
CStringNew(folder) ==
    IF \E i \in 1..Len(folder) : folder[i] = NUL
    THEN None1
    ELSE Some(Append(folder, NUL))

\* the text the engine reads through folder.as_ptr(): the bytes before the
\* first NUL
RECURSIVE CStr(_)
CStr(bytes) ==
    IF bytes = <<>> \/ Head(bytes) = NUL
    THEN <<>>
    ELSE <<Head(bytes)>> \o CStr(Tail(bytes))

\* .unwrap() on an Err: the call panics instead of returning
Panicked(op, folder) ==
    [op |-> "panic", ok |-> FALSE, err |-> None, in |-> op, folder |-> folder]

\* Tracker::save_to_slam_db(&self, folder) with the native SaveToSlamDb
\* returning `status`
TrackerSaveToSlamDb(folder, status) ==
    /\ tracker # None1
    /\ IF CStringNew(folder) = None1
       THEN /\ result' = Panicked("save_to_slam_db", folder)
            /\ UNCHANGED lastNative
       ELSE /\ lastNative' =
                  [path |-> CStr(Get(CStringNew(folder)))] @@
                  NativeCall("SaveToSlamDb", Get(tracker).handle, status,
                             Get(tracker)._rig.num_cameras, 0, FALSE)
            /\ result' = [folder |-> folder] @@
                         WrapperResult("save_to_slam_db", status)
    /\ UNCHANGED <<tracker, rig, rigAlive, hstate, destroyed, nCreate, nTrack>>

\* A drop that forgets the native release.
TrackerDrop_Leak ==
    /\ tracker # None1
    /\ tracker' = None1
    /\ rigAlive' = FALSE
    /\ UNCHANGED <<lastNative, destroyed, hstate, rig, result, nCreate, nTrack>>

\* impl Drop for Tracker: DestroyTracker(self.handle), then the fields
\* (the rig) are dropped
TrackerDrop ==
    /\ tracker # None1
    /\ lastNative' = NativeCall("DestroyTracker", Get(tracker).handle, 0,
                                Get(tracker)._rig.num_cameras, 0, FALSE)
    /\ destroyed' = IF Get(tracker).handle \in Handles
                    THEN [destroyed EXCEPT ![Get(tracker).handle] = @ + 1]
                    ELSE destroyed
    /\ hstate' = IF Get(tracker).handle \in Handles
                 THEN [hstate EXCEPT ![Get(tracker).handle] = "Destroyed"]
                 ELSE hstate
    /\ tracker' = None1
    /\ rigAlive' = FALSE
    /\ UNCHANGED <<rig, result, nCreate, nTrack>>

nativeVars == <<rig, rigAlive, tracker, result, hstate, destroyed, nCreate,
                nTrack, lastNative>>

(***************************************************************************)
(* The driver: main() of realsense.rs.                                     *)
(***************************************************************************)
NoWait == [ok |-> FALSE, why |-> "none", n |-> 0]

\* what active_pipeline.wait can come back with: an error (the timeout is
\* one) or a composite frame holding n infrared frames
WaitOutcomes ==
    {[ok |-> FALSE, why |-> w, n |-> 0] : w \in {"timeout", "error"}}
    \cup {[ok |-> TRUE, why |-> "frames", n |-> n] : n \in 0..MaxFrames}

\* the Status a Result<_, Status> stands for
StatusOf(res) == IF res.ok THEN "Success" ELSE res.err

Init ==
    /\ pc = "setup"
    /\ exit = "running"
    /\ frames = -1
    /\ images = <<>>
    /\ lastWait = NoWait
    /\ lastTrack = None
    /\ prevTrack = None
    /\ rig = None1
    /\ rigAlive = FALSE
    /\ tracker = None1
    /\ result = NoResult
    /\ conv = NoConv
    /\ pose = NoPose
    /\ hstate = [h \in Handles |-> "Uninitialized"]
    /\ destroyed = [h \in Handles |-> 0]
    /\ nCreate = 0
    /\ nTrack = 0
    /\ lastNative = NoCall

\* main, up to the rig: rerun and RealSense start-up (each step a `?`),
\* then create_stereo_camera_rig
Setup ==
    /\ pc = "setup"
    /\ \E ok \in BOOLEAN :
        IF ok
        THEN /\ rig' = Some(create_stereo_camera_rig)
             /\ rigAlive' = TRUE
             /\ pc' = "new"
             /\ exit' = exit
        ELSE /\ pc' = "return"
             /\ exit' = "Err"
             /\ UNCHANGED <<rig, rigAlive>>
    /\ UNCHANGED <<frames, images, lastWait, lastTrack, prevTrack, tracker,
                   result, conv, pose, hstate, destroyed, nCreate, nTrack,
                   lastNative>>

\* let tracker = match Tracker::new(camera_rig, &slam_config) { .. }
NewTracker ==
    /\ pc = "new"
    /\ \E status \in Codes : TrackerNew(Get(rig), status)
    /\ pc' = IF result'.ok THEN "wait" ELSE "return"
    /\ exit' = IF result'.ok THEN exit ELSE "Ok"
    /\ UNCHANGED <<frames, images, lastWait, lastTrack, prevTrack, conv, pose>>

\* top of the loop: wait(..)?, frames_of_type, the length test
WaitFrames ==
    /\ pc = "wait"
    /\ nTrack < MaxTrack
    /\ \E o \in WaitOutcomes :
        /\ lastWait' = o
        /\ IF ~o.ok
           THEN /\ pc' = "return"
                /\ exit' = "Err"
                /\ frames' = -1
           ELSE IF o.n < 2
           THEN /\ pc' = "wait"
                /\ exit' = exit
                /\ frames' = -1
           ELSE /\ pc' = "marshal"
                /\ exit' = exit
                /\ frames' = o.n
    /\ UNCHANGED <<images, lastTrack, prevTrack, conv, pose>>
    /\ UNCHANGED nativeVars

\* create_cuvslam_image(&infrared_frames[i]): a descriptor whose pixels
\* pointer refers to the storage of that frame (frames are numbered from 1
\* here), with camera_index 0
create_cuvslam_image(frame) == [pixels |-> frame, camera_index |-> 0]

\* Descriptors left as create_cuvslam_image made them.
MarshalImages_NoIndex ==
    <<create_cuvslam_image(1), create_cuvslam_image(2)>>

\* let mut images = vec![..] of the first two frames, then
\* images[0].camera_index = 0; images[1].camera_index = 1
MarshalImages ==
    LET made == <<create_cuvslam_image(1), create_cuvslam_image(2)>> IN
    [made EXCEPT ![1].camera_index = 0, ![2].camera_index = 1]

\* Descriptors built from frames that do not outlive the statement.
Marshal_FramesTemporary ==
    /\ pc = "marshal"
    /\ pc' = "track"
    /\ exit' = exit
    /\ frames' = -1
    /\ images' = MarshalImages
    /\ UNCHANGED <<lastWait, lastTrack, prevTrack, conv, pose, rig, rigAlive,
                   tracker, result, hstate, destroyed, nCreate, nTrack,
                   lastNative>>

\* create_cuvslam_image of the first two frames (its unwrap can panic),
\* then the camera_index assignments
Marshal ==
    /\ pc = "marshal"
    /\ \E panics \in BOOLEAN :
        IF panics
        THEN /\ pc' = "return"
             /\ exit' = "Panic"
             /\ frames' = -1
             /\ images' = <<>>
        ELSE /\ pc' = "track"
             /\ exit' = exit
             /\ frames' = frames
             /\ images' = MarshalImages
    /\ UNCHANGED <<lastWait, lastTrack, prevTrack, conv, pose>>
    /\ UNCHANGED nativeVars

\* The match with the TrackingLost arm breaking out of the loop as well.
AfterTrack_LostIsFatal(res) ==
    IF res.ok THEN "log_image" ELSE "return"

\* The match with the TrackingLost arm calling track again at once.
AfterTrack_Retries(res) ==
    IF res.ok THEN "log_image"
    ELSE IF res.err = "TrackingLost" THEN "track"
    ELSE "return"

\* The match with no arm breaking out of the loop.
AfterTrack_NeverBreaks(res) ==
    IF res.ok THEN "log_image" ELSE "wait"

\* the arms of `match tracker.track(&images, None)`
AfterTrack(res) ==
    IF res.ok THEN "log_image"
    ELSE IF res.err = "TrackingLost" THEN "wait"
    ELSE "return"

\* tracker.track(&images, None) and the match on what it returns
DriverTrack ==
    /\ pc = "track"
    /\ \E status \in Codes : TrackerTrack(Len(images), FALSE, status)
    /\ prevTrack' = lastTrack
    /\ lastTrack' = StatusOf(result')
    /\ pc' = AfterTrack(result')
    /\ exit' = IF pc' = "return" THEN "Ok" ELSE exit
    /\ frames' = IF pc' = "log_image" THEN frames ELSE -1
    /\ images' = IF pc' = "log_image" THEN images ELSE <<>>
    /\ UNCHANGED <<lastWait, conv, pose>>

\* rec.log("camera_image", ..)?
LogImage ==
    /\ pc = "log_image"
    /\ \E ok \in BOOLEAN :
        IF ok
        THEN /\ pc' = "log_translation"
             /\ UNCHANGED <<exit, frames, images>>
        ELSE /\ pc' = "return"
             /\ exit' = "Err"
             /\ frames' = -1
             /\ images' = <<>>
    /\ UNCHANGED <<lastWait, lastTrack, prevTrack, conv, pose>>
    /\ UNCHANGED nativeVars

\* rec.log("camera_translation", ..)? and the end of the iteration
LogTranslation ==
    /\ pc = "log_translation"
    /\ \E ok \in BOOLEAN :
        IF ok
        THEN /\ pc' = "wait"
             /\ exit' = exit
        ELSE /\ pc' = "return"
             /\ exit' = "Err"
    /\ frames' = -1
    /\ images' = <<>>
    /\ UNCHANGED <<lastWait, lastTrack, prevTrack, conv, pose>>
    /\ UNCHANGED nativeVars

\* main returns or unwinds: its locals are dropped, the tracker among them
Return ==
    /\ pc = "return"
    /\ pc' = "done"
    /\ IF tracker # None1 THEN TrackerDrop ELSE UNCHANGED nativeVars
    /\ UNCHANGED <<exit, frames, images, lastWait, lastTrack, prevTrack, conv, pose>>

Next ==
    \/ Setup
    \/ NewTracker
    \/ WaitFrames
    \/ Marshal
    \/ DriverTrack
    \/ LogImage
    \/ LogTranslation
    \/ Return

Spec == Init /\ [][Next]_vars

\* once main is on its way out nothing blocks it: the drops always run
FairSpec == Spec /\ WF_vars(Return)

(***************************************************************************)
(* A client of the library: the public API in every order ownership        *)
(* allows (a Tracker is used only while it exists, a rig is moved into     *)
(* Tracker::new).                                                          *)
(***************************************************************************)
LibInit ==
    /\ pc = "client"
    /\ exit = "running"
    /\ frames = -1
    /\ images = <<>>
    /\ lastWait = NoWait
    /\ lastTrack = None
    /\ prevTrack = None
    /\ rig = None1
    /\ rigAlive = FALSE
    /\ tracker = None1
    /\ result = NoResult
    /\ conv = NoConv
    /\ pose = NoPose
    /\ hstate = [h \in Handles |-> "Uninitialized"]
    /\ destroyed = [h \in Handles |-> 0]
    /\ nCreate = 0
    /\ nTrack = 0
    /\ lastNative = NoCall

\* CameraRig::new(cameras)
LibCameraRigNew ==
    /\ pc = "client"
    /\ rig = None1
    /\ tracker = None1
    /\ nCreate < MaxHandles
    /\ \E cameras \in CameraSeqs : rig' = Some(CameraRigNew(cameras))
    /\ rigAlive' = TRUE
    /\ UNCHANGED <<tracker, result, conv, pose, hstate, destroyed, nCreate,
                   nTrack, lastNative>>
    /\ UNCHANGED driverVars

\* Tracker::new(rig, &config)
LibTrackerNew ==
    /\ pc = "client"
    /\ rig # None1
    /\ tracker = None1
    /\ nCreate < MaxHandles
    /\ \E status \in Codes : TrackerNew(Get(rig), status)
    /\ UNCHANGED <<conv, pose>>
    /\ UNCHANGED driverVars

\* tracker.track(&images, predicted_pose)
LibTrack ==
    /\ pc = "client"
    /\ nTrack < MaxTrack
    /\ \E n \in 0..MaxImages, predicted \in BOOLEAN, status \in Codes :
        TrackerTrack(n, predicted, status)
    /\ UNCHANGED <<conv, pose>>
    /\ UNCHANGED driverVars

\* tracker.get_odometry_pose()
LibGetOdometryPose ==
    /\ pc = "client"
    /\ \E status \in Codes : TrackerGetOdometryPose(status)
    /\ UNCHANGED <<conv, pose>>
    /\ UNCHANGED driverVars

\* tracker.save_to_slam_db(folder); a panic leaves the client by unwinding,
\* which drops the Tracker the client owns
LibSaveToSlamDb ==
    /\ pc = "client"
    /\ \E folder \in Paths :
        \E status \in (IF CStringNew(folder) = None1 THEN {CUVSLAM_SUCCESS} ELSE Codes) :
            /\ TrackerSaveToSlamDb(folder, status)
            /\ pc' = IF result'.op = "panic" THEN "unwinding" ELSE pc
    /\ UNCHANGED <<conv, pose>>
    /\ UNCHANGED <<exit, frames, images, lastWait, lastTrack, prevTrack>>

\* the Tracker goes out of scope, at the end of its block or in unwinding
LibDrop ==
    /\ TrackerDrop
    /\ UNCHANGED <<conv, pose>>
    /\ UNCHANGED driverVars

LibNext ==
    \/ LibCameraRigNew
    \/ LibTrackerNew
    \/ LibTrack
    \/ LibGetOdometryPose
    \/ LibSaveToSlamDb
    \/ LibDrop

LibSpec == LibInit /\ [][LibNext]_vars

(***************************************************************************)
(* The pure conversions, each applied to an input the initial state draws. *)
(***************************************************************************)
PureInit ==
    /\ pc = "pure"
    /\ exit = "running"
    /\ frames = -1
    /\ images = <<>>
    /\ lastWait = NoWait
    /\ lastTrack = None
    /\ prevTrack = None
    /\ rig = None1
    /\ rigAlive = FALSE
    /\ tracker = None1
    /\ result = NoResult
    /\ \E code \in 0..MaxRawCode : conv = [code |-> code, status |-> None]
    /\ \E shape \in {"PoseEstimate", "CUVSLAM_PoseEstimate"}, est \in PoseEstimates :
        pose = [start |-> shape, shape |-> shape, orig |-> est, cur |-> est,
                steps |-> 0]
    /\ hstate = [h \in Handles |-> "Uninitialized"]
    /\ destroyed = [h \in Handles |-> 0]
    /\ nCreate = 0
    /\ nTrack = 0
    /\ lastNative = NoCall

\* Status::from(code)
ConvertStatus ==
    /\ pc = "pure"
    /\ conv.status = None
    /\ conv' = [conv EXCEPT !.status = StatusFrom(conv.code)]
    /\ UNCHANGED pose
    /\ UNCHANGED nativeVars
    /\ UNCHANGED driverVars

\* CUVSLAM_PoseEstimate::from(est): PoseEstimate into the native shape
PoseIntoNative ==
    /\ pc = "pure"
    /\ pose.steps < 2
    /\ pose.shape = "PoseEstimate"
    /\ pose' = [pose EXCEPT !.cur = PoseEstimateIntoNative(pose.cur),
                            !.shape = "CUVSLAM_PoseEstimate",
                            !.steps = @ + 1]
    /\ UNCHANGED conv
    /\ UNCHANGED nativeVars
    /\ UNCHANGED driverVars

\* PoseEstimate::from(est): the native shape into PoseEstimate
PoseFromNative ==
    /\ pc = "pure"
    /\ pose.steps < 2
    /\ pose.shape = "CUVSLAM_PoseEstimate"
    /\ pose' = [pose EXCEPT !.cur = PoseEstimateFromNative(pose.cur),
                            !.shape = "PoseEstimate",
                            !.steps = @ + 1]
    /\ UNCHANGED conv
    /\ UNCHANGED nativeVars
    /\ UNCHANGED driverVars

PureNext ==
    \/ ConvertStatus
    \/ PoseIntoNative
    \/ PoseFromNative

PureSpec == PureInit /\ [][PureNext]_vars

(***************************************************************************)
(* Properties.                                                             *)
(***************************************************************************)

\* the Status taxonomy, as a table: the variant of each known code
KnownStatus ==
    <<"Success", "TrackingLost", "InvalidArg", "CannotLocalize", "GenericError",
      "UnsupportedNumberOfCameras", "SlamNotInitialized", "NotImplemented",
      "ReadingSlamInternalsDisabled">>

ExpectedStatus(code) ==
    IF code \in 0..(Len(KnownStatus) - 1) THEN KnownStatus[code + 1]
    ELSE "GenericError"

\* the engine created a session behind handle h
Created(h) == hstate[h] # "Uninitialized"

\* C1: every session the engine created is released by exactly one
\* DestroyTracker call: never more than one, and exactly one once main has
\* ended, whichever way it ended (break, `?` return, unwinding).
C1_DestroyExactlyOnce ==
    \A h \in Handles :
        /\ destroyed[h] <= 1
        /\ (~Created(h) => destroyed[h] = 0)
        /\ (pc = "done" /\ Created(h) => destroyed[h] = 1)

\* main ended on the early return of a failed frame wait, session released
C1_Witness ==
    /\ pc = "done"
    /\ exit = "Err"
    /\ ~lastWait.ok
    /\ lastWait.why = "error"
    /\ destroyed[1] = 1

\* C2: a native Track, GetOdometryPose or SaveToSlamDb call is only ever
\* issued on a handle whose session is Active at the time of the call:
\* never on a destroyed one, never on one CreateTracker did not fill in.
C2_CallsOnlyWhileActive ==
    lastNative.fn \in {"Track", "GetOdometryPose", "SaveToSlamDb"}
        => lastNative.hs = "Active"

\* a call on the second session, made after the first one was destroyed
C2_Witness ==
    /\ lastNative.fn = "SaveToSlamDb"
    /\ lastNative.handle = 2
    /\ hstate[1] = "Destroyed"

\* C3: once CreateTracker has returned a non-success status in the driver,
\* Tracker::new has returned the taxonomy's Status for it as an error, there
\* is no session object, the rig is released, and neither DestroyTracker nor
\* Track is ever called: the driver is on its way out.
C3_FailedCreate ==
    (nCreate = 1 /\ \A h \in Handles : ~Created(h)) =>
        /\ lastNative.fn = "CreateTracker"
        /\ lastNative.ret # CUVSLAM_SUCCESS
        /\ result = [op |-> "new", ok |-> FALSE,
                     err |-> ExpectedStatus(lastNative.ret)]
        /\ tracker = None1
        /\ rig = None1
        /\ ~rigAlive
        /\ nTrack = 0
        /\ \A h \in Handles : destroyed[h] = 0
        /\ pc \in {"return", "done"}

\* the driver has ended after CreateTracker refused the rig's camera count
C3_Witness ==
    /\ pc = "done"
    /\ nCreate = 1
    /\ lastNative.fn = "CreateTracker"
    /\ lastNative.ret = CUVSLAM_UNSUPPORTED_NUMBER_OF_CAMERAS
    /\ result.err = "UnsupportedNumberOfCameras"

\* C4: building a rig from no camera fails, so no rig of zero cameras ever
\* exists and CreateTracker is never called with one.
C4_EmptyRigRejected ==
    /\ (rig # None1 => Get(rig).num_cameras > 0)
    /\ (lastNative.fn = "CreateTracker" => lastNative.num_cameras > 0)

\* C5: the native Track is never reached with a number of images that
\* differs from the camera count of the session's rig.
C5_MismatchNeverReachesNative ==
    lastNative.fn = "Track" => lastNative.nimages = lastNative.num_cameras

\* the native function behind each wrapper
NativeOf(op) ==
    CASE op = "new" -> "CreateTracker"
      [] op = "track" -> "Track"
      [] op = "get_odometry_pose" -> "GetOdometryPose"
      [] op = "save_to_slam_db" -> "SaveToSlamDb"
      [] OTHER -> "none"

\* C6: new, track, get_odometry_pose and save_to_slam_db return Ok exactly
\* when the native call returned the Success code, and otherwise an error
\* that is the taxonomy's Status of the code, which is never Status::Success.
C6_OkIffSuccess ==
    (result.op # "none" /\ lastNative.fn = NativeOf(result.op)) =>
        /\ result.ok <=> lastNative.ret = CUVSLAM_SUCCESS
        /\ result.ok => result.err = None
        /\ ~result.ok => /\ result.err = ExpectedStatus(lastNative.ret)
                         /\ result.err # "Success"

\* get_odometry_pose has returned the error of a code the taxonomy names
C6_Witness ==
    /\ result.op = "get_odometry_pose"
    /\ lastNative.fn = "GetOdometryPose"
    /\ lastNative.ret = CUVSLAM_SLAM_IS_NOT_INITIALIZED
    /\ result.err = "SlamNotInitialized"

\* C7: Status::from gives every integer a Status: each of the nine known
\* codes its own variant, every other integer GenericError.
C7_StatusMappingTotal ==
    conv.status # None =>
        /\ conv.status \in Status
        /\ \A k \in 1..Len(KnownStatus) :
               conv.code = k - 1 => conv.status = KnownStatus[k]
        /\ conv.code >= Len(KnownStatus) => conv.status = "GenericError"
        /\ \A j, k \in 1..Len(KnownStatus) :
               j # k => KnownStatus[j] # KnownStatus[k]

\* an integer that is no known code has been converted
C7_Witness ==
    /\ conv.code = 100
    /\ conv.status = "GenericError"

\* C8: a track call that returns TrackingLost leaves the driver at the next
\* frame wait with the same, still Active, undestroyed session; and the
\* track call after a TrackingLost goes to the same Active handle.
C8_TrackingLostContinues ==
    [][ /\ (pc = "track" /\ nTrack' = nTrack + 1 /\ lastTrack' = "TrackingLost") =>
            /\ pc' = "wait"
            /\ exit' = "running"
            /\ tracker' = tracker
            /\ tracker' # None1
            /\ hstate' = hstate
            /\ destroyed' = destroyed
            /\ hstate'[lastNative'.handle] = "Active"
        /\ (nTrack' = nTrack + 1 /\ lastTrack = "TrackingLost") =>
            /\ lastNative.fn = "Track"
            /\ lastNative'.handle = lastNative.handle
            /\ lastNative'.hs = "Active"
      ]_vars

\* the track call after a TrackingLost has returned Success on the session
C8_Witness ==
    /\ prevTrack = "TrackingLost"
    /\ lastTrack = "Success"
    /\ nTrack = 2
    /\ tracker # None1
    /\ hstate[Get(tracker).handle] = "Active"
    /\ destroyed[Get(tracker).handle] = 0

\* the latest track call returned a status the loop does not survive
Fatal == lastTrack \notin {None, "Success", "TrackingLost"}

\* C9: a track call that returns a status other than Success and
\* TrackingLost takes the driver out of the loop; no Track call follows it;
\* when main has ended the session is destroyed; and main does end.
C9_FatalTerminates ==
    /\ [][(pc = "track" /\ Fatal') => pc' = "return"]_vars
    /\ [][Fatal => nTrack' = nTrack]_vars
    /\ [](Fatal => pc \in {"return", "done"})
    /\ [](Fatal /\ pc = "done" =>
            \A h \in Handles : Created(h) =>
                hstate[h] = "Destroyed" /\ destroyed[h] = 1)
    /\ (Fatal ~> pc = "done")

\* main has ended after a fatal track status, the session destroyed
C9_Witness ==
    /\ Fatal
    /\ pc = "done"
    /\ exit = "Ok"
    /\ hstate[1] = "Destroyed"
    /\ destroyed[1] = 1

\* C10: a frame wait that times out makes no track call and leaves the
\* driver at the next frame wait.
C10_TimeoutContinues ==
    [][(pc = "wait" /\ lastWait'.why = "timeout") =>
            pc' = "wait" /\ nTrack' = nTrack]_vars

\* C11: a frame wait that delivers a number of infrared frames other than
\* the rig's two cameras, fewer or more, is skipped: the driver is back at
\* the frame wait and no track call is made.
C11_WrongFrameCountSkipped ==
    [][(pc = "wait" /\ lastWait'.ok /\ lastWait'.n # 2) =>
            pc' = "wait" /\ nTrack' = nTrack]_vars

\* C12: an error of the visualization sink, on the image or on the
\* translation, does not end the loop: after either log call the driver is
\* still running, at the next log call or the next frame wait.
C12_LogErrorContinues ==
    [][(pc \in {"log_image", "log_translation"}) =>
            pc' \in {"log_translation", "wait"} /\ exit' = "running"]_vars

\* C13: while a session is Active the Tracker that owns its handle holds the
\* rig it was created from, the rig's storage is alive and the rig does not
\* change; the storage is released only in a step that has called
\* DestroyTracker on the handle.
C13_RigOutlivesSession ==
    /\ [](\A h \in Handles : hstate[h] = "Active" =>
            /\ tracker # None1
            /\ Get(tracker).handle = h
            /\ rigAlive)
    /\ [][\A h \in Handles :
            /\ (hstate[h] = "Active" /\ hstate'[h] = "Active") =>
                    tracker' = tracker /\ rigAlive'
            /\ (hstate[h] = "Active" /\ ~rigAlive') =>
                    /\ hstate'[h] = "Destroyed"
                    /\ destroyed'[h] = destroyed[h] + 1
                    /\ lastNative'.fn = "DestroyTracker"
                    /\ lastNative'.handle = h
         ]_vars

\* a track call on an Active session of a two-camera rig, the rig alive
C13_Witness ==
    /\ tracker # None1
    /\ hstate[Get(tracker).handle] = "Active"
    /\ Get(tracker)._rig.num_cameras = 2
    /\ lastNative.fn = "Track"
    /\ rigAlive

\* the number of parameters each distortion model takes
ParameterCount(model) ==
    CASE model = "pinhole" -> 4
      [] model = "brown5k" -> 9
      [] model = "fisheye4" -> 8
      [] OTHER -> -1

\* the native camera sent for camera i of rig r agrees with what the rig owns
CameraAgrees(r, i) ==
    LET native == r._inner_cameras[i]
        owned == r._cameras[i] IN
    /\ native.num_parameters = Len(owned.parameters)
    /\ native.num_parameters = ParameterCount(native.distortion_model)
    /\ native.distortion_model = owned.distortion_model
    /\ native.parameters = owned.parameters

\* C15: in every rig a caller holds to pass to CreateTracker, and in every
\* rig a session was created from, each native camera's num_parameters is
\* the length of the owned parameter vector and the count of its model
\* name: pinhole 4, brown5k 9, fisheye4 8.
C15_ParameterCountAgrees ==
    /\ rig # None1 =>
        /\ Len(Get(rig)._inner_cameras) = Len(Get(rig)._cameras)
        /\ \A i \in 1..Len(Get(rig)._cameras) : CameraAgrees(Get(rig), i)
    /\ tracker # None1 =>
        /\ Len(Get(tracker)._rig._inner_cameras) = Len(Get(tracker)._rig._cameras)
        /\ \A i \in 1..Len(Get(tracker)._rig._cameras) :
               CameraAgrees(Get(tracker)._rig, i)

\* CreateTracker has been called with a rig of a pinhole and a fisheye4
\* camera
C15_Witness ==
    /\ lastNative.fn = "CreateTracker"
    /\ tracker # None1
    /\ Len(Get(tracker)._rig._inner_cameras) = 2
    /\ Get(tracker)._rig._inner_cameras[1].distortion_model = "pinhole"
    /\ Get(tracker)._rig._inner_cameras[1].num_parameters = 4
    /\ Get(tracker)._rig._inner_cameras[2].distortion_model = "fisheye4"
    /\ Get(tracker)._rig._inner_cameras[2].num_parameters = 8

\* C16: a step in which track, get_odometry_pose or save_to_slam_db has run
\* starts from an Active session and leaves it as it was, whatever the call
\* returns: the same Tracker (handle and rig), the handle still Active, the
\* rig alive, no CreateTracker and no DestroyTracker call.
C16_CallsKeepSessionState ==
    [][(/\ result'.op \in {"track", "get_odometry_pose", "save_to_slam_db"}
        /\ lastNative'.fn = NativeOf(result'.op)) =>
            /\ tracker # None1
            /\ tracker' = tracker
            /\ hstate[Get(tracker).handle] = "Active"
            /\ hstate' = hstate
            /\ destroyed' = destroyed
            /\ nCreate' = nCreate
            /\ rigAlive /\ rigAlive'
            /\ rig' = rig
      ]_vars

\* a track call has returned an error and the session is Active, undestroyed
C16_Witness ==
    /\ result.op = "track"
    /\ result.err = "InvalidArg"
    /\ lastNative.fn = "Track"
    /\ tracker # None1
    /\ hstate[Get(tracker).handle] = "Active"
    /\ destroyed[Get(tracker).handle] = 0

\* C17: a pose estimate taken through one conversion keeps its rotation,
\* translation, timestamp and covariance, and taken through both (wrapper
\* to native and back, or native to wrapper and back) it is the pose
\* estimate it started as.
C17_PoseRoundTrip ==
    pose.steps > 0 =>
        /\ pose.cur.pose.r = pose.orig.pose.r
        /\ pose.cur.pose.t = pose.orig.pose.t
        /\ pose.cur.timestamp_ns = pose.orig.timestamp_ns
        /\ pose.cur.covariance = pose.orig.covariance
        /\ pose.steps = 2 => pose.shape = pose.start /\ pose.cur = pose.orig

\* identity rotation and zero translation have gone to native and back
C17_Witness ==
    /\ pose.steps = 2
    /\ pose.start = "PoseEstimate"
    /\ pose.shape = "PoseEstimate"
    /\ pose.orig.pose.r = Identity3
    /\ pose.orig.pose.t = <<0, 0, 0>>
    /\ pose.cur.pose.r = Identity3
    /\ pose.cur.pose.t = <<0, 0, 0>>

\* C18: the driver's events come one at a time and in order.  A native
\* Track call is made only by the track step, one per step, and that step
\* is entered only from marshaling the frames of a wait; the image is
\* logged only after a track that returned Success, the translation only
\* after the image; and a frame wait begins only after start-up, after a
\* TrackingLost, or after the translation has been logged.
C18_StrictIterationOrder ==
    [][ /\ pc' = "marshal" => pc = "wait"
        /\ pc' = "track" => pc = "marshal"
        /\ nTrack' # nTrack =>
            /\ pc = "track"
            /\ pc' # "track"
            /\ nTrack' = nTrack + 1
        /\ pc = "track" => nTrack' = nTrack + 1
        /\ pc' = "log_image" => pc = "track" /\ lastTrack' = "Success"
        /\ pc' = "log_translation" => pc = "log_image"
        /\ (pc' = "wait" /\ pc # "wait") =>
            \/ pc = "new"
            \/ pc = "track" /\ lastTrack' = "TrackingLost"
            \/ pc = "log_translation"
      ]_vars

\* two whole iterations (wait, track, both log calls) have completed
C18_Witness ==
    /\ pc = "wait"
    /\ nTrack = 2
    /\ prevTrack = "Success"
    /\ lastTrack = "Success"

\* C19: every track call of the driver passes two image descriptors, as
\* many as the rig has cameras, the one at position i with camera_index i,
\* and no predicted pose.
C19_TrackArguments ==
    [][nTrack' = nTrack + 1 =>
        /\ Len(images) = 2
        /\ \A i \in 1..Len(images) : images[i].camera_index = i - 1
        /\ lastNative'.fn = "Track"
        /\ lastNative'.nimages = Len(images)
        /\ lastNative'.num_cameras = 2
        /\ ~lastNative'.predicted
      ]_vars

\* a track call with descriptors 0 and 1 has returned and they are in use
C19_Witness ==
    /\ pc = "log_image"
    /\ lastNative.fn = "Track"
    /\ lastNative.nimages = 2
    /\ ~lastNative.predicted
    /\ Len(images) = 2
    /\ images[1].camera_index = 0
    /\ images[2].camera_index = 1

\* C20: every image descriptor points at the pixels of a frame the driver
\* still holds; the descriptors and their frames exist when track is called
\* and when the first image's pixels are read for the log; and at the top
\* of the next iteration no descriptor and no frame of the last one is left.
C20_FramesOutliveDescriptors ==
    /\ \A i \in 1..Len(images) : images[i].pixels \in 1..frames
    /\ pc \in {"track", "log_image"} => Len(images) = 2 /\ frames >= 2
    /\ pc \in {"wait", "marshal"} => images = <<>>
    /\ pc = "wait" => frames = -1

\* the first image's pixels are about to be read, after track has returned,
\* from a frame of a wait that delivered three
C20_Witness ==
    /\ pc = "log_image"
    /\ lastTrack = "Success"
    /\ frames = 3
    /\ Len(images) = 2
    /\ images[1].pixels = 1

\* C21: save_to_slam_db ends in no other way than by returning: whatever
\* path it is given on an Active session, it hands that path unchanged to
\* the native SaveToSlamDb and returns unit or an error Status (the native
\* call after a returned save is that SaveToSlamDb, or the DestroyTracker of
\* a later drop); it never panics before the native call.
C21_SaveAlwaysReturns ==
    /\ ~(result.op = "panic" /\ result.in = "save_to_slam_db")
    /\ result.op = "save_to_slam_db" =>
        /\ result.ok \/ result.err \in Status
        /\ lastNative.fn \in {"SaveToSlamDb", "DestroyTracker"}
        /\ lastNative.fn = "SaveToSlamDb" => lastNative.path = result.folder

====
